---- MODULE Spec2Model ----
(***************************************************************************)
(* TLV1: the tag-length-value codec (tlv.rs), the Operation model in its   *)
(* two variants (operation.rs and lib.rs) and the pipeline the client and  *)
(* the responder run over them (bin/tcp1cli.rs, bin/tcp1ser.rs).           *)
(***************************************************************************)
EXTENDS Integers, Sequences, FiniteSets, TLC

VARIABLES
    overflow_checks, \* build profile: TRUE = arithmetic overflow panics (debug), FALSE = wraps (release)
    \* ---- TlvIterator over one buffer (tlv.rs)
    records,         \* the complete records concatenated into buf, as (tag, payload) pairs
    tail,            \* the bytes of buf after those records
    buf,             \* TlvIterator.buf
    index,           \* TlvIterator.index
    yielded,         \* the items next() has returned so far
    ret,             \* what the last call of next() did: "fresh", "Some", "None", "panic"
    last,            \* the result of the last Tlv::try_from
    last_at,         \* the cursor that call started from
    \* ---- Operation pipeline: parse, encode, decode, reduce, display
    impl,            \* which Operation is compiled in: "operation" (operation.rs) or "lib" (lib.rs)
    pc,              \* position in the pipeline
    origin,          \* where the run started: "text", "op" or "wire"
    text,            \* the line read from stdin
    parsed,          \* Operation::from_str(text)
    op,              \* the Operation the requester holds
    wire,            \* the bytes on the transport
    decoded,         \* Operation::try_from(Tlv::try_from(wire))
    result,          \* decoded.reduce()
    shown,           \* format!("{}", decoded)
    reparsed,        \* shown.parse::<Operation>()
    result2,         \* reparsed.reduce()
    \* ---- Answer codec (lib.rs)
    apc,             \* position: "num", "wire", "done"
    aorigin,         \* where the run started: "num" or "wire"
    num,             \* the i64 an Answer is made from
    awire,           \* the bytes of the reply on the transport
    answer,          \* Answer::try_from(Tlv::try_from(awire))
    \* ---- the responder and the connections it serves (bin/tcp1ser.rs)
    spc,             \* where main stands: "accept", "read", "for", or "dead" once it has panicked
    conn,            \* how many connections listener.accept() has returned
    acc,             \* the accumulator (tcp1ser.rs:50)
    pending,         \* bytes the requester wrote that no read has returned yet
    closed,          \* the requester has closed the connection
    sent,            \* the records the requester wrote on this connection
    sbuf,            \* buffer[..len] of the last read
    sindex,          \* the cursor of the iterator of the for loop
    outbox,          \* the replies written on this connection, one write_all each
    total,           \* how many records the requesters have written, all connections together
    printed          \* the results printed (tcp1ser.rs:65) since this connection was accepted

tlvVars == <<records, tail, buf, index, yielded, ret, last, last_at>>
opVars == <<impl, pc, origin, text, parsed, op, wire, decoded, result, shown, reparsed, result2>>
ansVars == <<apc, aorigin, num, awire, answer>>
sesVars == <<spc, conn, acc, pending, closed, sent, sbuf, sindex, outbox, total, printed>>
vars == <<overflow_checks, tlvVars, opVars, ansVars, sesVars>>

\* ------------------------------------------------------------------ bounds
\* operands -MaxOperand..MaxOperand are drawn besides the i8/u8 edge values
MaxOperand == 2
\* at most MaxRecords complete records are concatenated into one buffer
MaxRecords == 2

\* the responder accepts at most MaxConns connections, one after the other
MaxConns == 2
\* the requesters write at most MaxSent records, all connections together
MaxSent == 2

\* ------------------------------------------------------------------ bytes
Byte == 0..255

\* `x as u8` of an i8
as_u8(x) == x % 256

\* `x as i8` of a u8
as_i8(x) == IF x >= 128 THEN x - 256 ELSE x

Fill(n, b) == [i \in 1..n |-> b]

\* bytes[from..to] of a slice (0-based, `to` exclusive)
Slice(bytes, from, to) == SubSeq(bytes, from + 1, to)

\* ------------------------------------------------------------------ tlv.rs
Sum == 1
Sub == 2
Mul == 3
Div == 4
Rem == 5
Fact == 6
Numi64 == 16

TlvType == {Sum, Sub, Mul, Div, Rem, Fact, Numi64}

NoTlv == [kind |-> "None", err |-> "", byte |-> 0, tag |-> 0, length |-> 0, data |-> <<>>]
TlvOk(t, l, d) == [NoTlv EXCEPT !.kind = "Ok", !.tag = t, !.length = l, !.data = d]
TlvErr(e, b) == [NoTlv EXCEPT !.kind = "Err", !.err = e, !.byte = b]
TlvPanic(why) == [NoTlv EXCEPT !.kind = "Panic", !.err = why]

\* TlvType::try_from(u8)
TlvType_try_from(v) ==
    IF v \in TlvType THEN TlvOk(v, 0, <<>>) ELSE TlvErr("TagUnknown", v)

\* Tlv::encode(tag, data)
Tlv_encode(tag, data) ==
    IF Len(data) <= 255
    THEN [kind |-> "Ok", bytes |-> <<tag, Len(data)>> \o data]
    ELSE [kind |-> "Err", bytes |-> <<>>]

\* u8 + u8: panics under overflow checks, wraps without
u8_add(x, y, oc) ==
    IF x + y > 255 /\ oc THEN [panic |-> TRUE, v |-> 0]
    ELSE [panic |-> FALSE, v |-> (x + y) % 256]

\* Tlv::try_from(&[u8])
Tlv_try_from(bytes, oc) ==
    IF Len(bytes) < 2 THEN TlvErr("WrongFormat", 0)
    ELSE LET end == u8_add(bytes[2], 2, oc)
             tag == TlvType_try_from(bytes[1])
         IN  IF end.panic THEN TlvPanic("attempt to add with overflow")
             ELSE IF ~(Len(bytes) >= end.v) THEN TlvErr("WrongFormat", 0)
             ELSE IF tag.kind = "Err" THEN tag
             ELSE IF 2 > end.v THEN TlvPanic("slice index starts at 2 but ends before it")
             ELSE IF end.v > Len(bytes) THEN TlvPanic("range end index out of range")
             ELSE TlvOk(tag.tag, bytes[2], Slice(bytes, 2, end.v))

\* TlvIterator::process(buf)
TlvIterator_process(b) == [buf |-> b, index |-> 0]

\* a fault the isolation of a failed record detects: the cursor is moved past
\* the two header bytes only, not past the payload
TlvIterator_next_header_only(b, i, oc) ==
    LET r == Tlv_try_from(Slice(b, i, Len(b)), oc)
    IN  IF r.kind = "Ok"
        THEN [index |-> i + 2, ret |-> "Some", tlv |-> r]
        ELSE IF r.kind = "Err"
        THEN [index |-> i, ret |-> "None", tlv |-> r]
        ELSE [index |-> i, ret |-> "panic", tlv |-> r]

\* TlvIterator::next(): the new cursor, the item and the decode it rests on
TlvIterator_next(b, i, oc) ==
    LET r == Tlv_try_from(Slice(b, i, Len(b)), oc)
    IN  IF r.kind = "Ok"
        THEN [index |-> i + 2 + r.length, ret |-> "Some", tlv |-> r]
        ELSE IF r.kind = "Err"
        THEN [index |-> i, ret |-> "None", tlv |-> r]
        ELSE [index |-> i, ret |-> "panic", tlv |-> r]

\* ------------------------------------------------------------------ i64
\* An i64 is kept as sign and magnitude, the magnitude as 8 little-endian bytes,
\* so that no value of the program exceeds TLC's 32-bit integers.
I64Zero == [neg |-> FALSE, mag |-> Fill(8, 0)]
I64_MAX == [neg |-> FALSE, mag |-> <<255, 255, 255, 255, 255, 255, 255, 127>>]
I64_MIN == [neg |-> TRUE, mag |-> <<0, 0, 0, 0, 0, 0, 0, 128>>]

\* i64::from of an i8 / i16 / small literal (|n| < 2^31)
I64(n) ==
    LET m == IF n < 0 THEN 0 - n ELSE n
    IN  [neg |-> n < 0,
         mag |-> <<m % 256, (m \div 256) % 256, (m \div 65536) % 256,
                   m \div 16777216, 0, 0, 0, 0>>]

\* magnitude * e, as 8 bytes and the carry out of them
RECURSIVE MulMag(_, _, _, _)
MulMag(mag, e, i, carry) ==
    IF i > 8 THEN <<carry>>
    ELSE LET p == mag[i] * e + carry
         IN  <<p % 256>> \o MulMag(mag, e, i + 1, p \div 256)

\* a fault the saturation properties detect: the product wraps, keeping the low
\* 64 bits
saturating_mul_wrapping(x, e) ==
    LET m == IF e < 0 THEN 0 - e ELSE e
        p == MulMag(x.mag, m, 1, 0)
        mag == SubSeq(p, 1, 8)
    IN  [neg |-> (x.neg # (e < 0)) /\ mag # Fill(8, 0), mag |-> mag]

\* i64::saturating_mul(x, e) for a factor 0 < |e| < 2^15
saturating_mul(x, e) ==
    LET m == IF e < 0 THEN 0 - e ELSE e
        p == MulMag(x.mag, m, 1, 0)
        mag == SubSeq(p, 1, 8)
        neg == (x.neg # (e < 0)) /\ mag # Fill(8, 0)
        fits == /\ p[9] = 0
                /\ \/ mag[8] < 128
                   \/ neg /\ mag = I64_MIN.mag
    IN  IF fits THEN [neg |-> neg, mag |-> mag]
        ELSE IF x.neg # (e < 0) THEN I64_MIN ELSE I64_MAX

\* (lo..=hi).fold(acc, |acc, e| acc.saturating_mul(e)): the factors are taken in
\* order; the range is split in two so that the evaluation stays shallow, and the
\* test on the sign only makes the left half's product be computed first
RECURSIVE FactFold(_, _, _)
FactFold(x, lo, hi) ==
    IF lo > hi THEN x
    ELSE IF lo = hi THEN saturating_mul(x, lo)
    ELSE LET left == FactFold(x, lo, (lo + hi) \div 2)
         IN  IF left.neg THEN FactFold(left, ((lo + hi) \div 2) + 1, hi)
             ELSE FactFold(left, ((lo + hi) \div 2) + 1, hi)

\* the sum of two magnitudes, as 8 bytes and the carry out of them
RECURSIVE AddMag(_, _, _, _)
AddMag(x, y, i, carry) ==
    IF i > 8 THEN <<carry>>
    ELSE <<(x[i] + y[i] + carry) % 256>> \o AddMag(x, y, i + 1, (x[i] + y[i] + carry) \div 256)

\* x - y for magnitudes x >= y
RECURSIVE SubMag(_, _, _, _)
SubMag(x, y, i, borrow) ==
    IF i > 8 THEN <<>>
    ELSE <<(x[i] - y[i] - borrow) % 256>>
         \o SubMag(x, y, i + 1, IF x[i] - y[i] - borrow < 0 THEN 1 ELSE 0)

\* x < y for magnitudes, decided at the highest byte in which they differ
LessMag(x, y) ==
    \E i \in 1..8 : x[i] < y[i] /\ \A j \in (i + 1)..8 : x[j] = y[j]

\* i64::saturating_add(a, b)
saturating_add(a, b) ==
    IF a.neg = b.neg
    THEN LET s == AddMag(a.mag, b.mag, 1, 0)
             mag == SubSeq(s, 1, 8)
             fits == /\ s[9] = 0
                     /\ \/ mag[8] < 128
                        \/ a.neg /\ mag = I64_MIN.mag
         IN  IF fits THEN [neg |-> a.neg, mag |-> mag]
             ELSE IF a.neg THEN I64_MIN ELSE I64_MAX
    ELSE IF a.mag = b.mag THEN I64Zero
    ELSE IF LessMag(a.mag, b.mag) THEN [neg |-> b.neg, mag |-> SubMag(b.mag, a.mag, 1, 0)]
    ELSE [neg |-> a.neg, mag |-> SubMag(a.mag, b.mag, 1, 0)]

\* the two's complement of 8 little-endian bytes: every bit inverted, plus one
TwosComplement(le) == SubSeq(AddMag([i \in 1..8 |-> 255 - le[i]], Fill(8, 0), 1, 1), 1, 8)
Reverse(d) == [i \in 1..Len(d) |-> d[Len(d) + 1 - i]]

\* a fault the Answer codec detects: the bytes in little-endian order
i64_to_le_bytes(n) == IF n.neg THEN TwosComplement(n.mag) ELSE n.mag
\* i64::to_be_bytes
i64_to_be_bytes(n) == Reverse(IF n.neg THEN TwosComplement(n.mag) ELSE n.mag)

\* i64::from_be_bytes of 8 bytes
i64_from_be_bytes(d) ==
    IF d[1] >= 128 THEN [neg |-> TRUE, mag |-> TwosComplement(Reverse(d))]
    ELSE [neg |-> FALSE, mag |-> Reverse(d)]

\* i8 / i8 and i8 % i8 of Rust: the quotient truncates toward zero, the
\* remainder takes the sign of the dividend; a zero divisor and i8::MIN by -1
\* panic in every build
Abs(n) == IF n < 0 THEN 0 - n ELSE n
i8_div(a, b) ==
    IF b = 0 \/ (a = -128 /\ b = -1) THEN [panic |-> TRUE, v |-> 0]
    ELSE [panic |-> FALSE,
          v |-> IF (a < 0) = (b < 0) THEN Abs(a) \div Abs(b) ELSE 0 - (Abs(a) \div Abs(b))]
i8_rem(a, b) ==
    IF b = 0 \/ (a = -128 /\ b = -1) THEN [panic |-> TRUE, v |-> 0]
    ELSE [panic |-> FALSE,
          v |-> IF a < 0 THEN 0 - (Abs(a) % Abs(b)) ELSE Abs(a) % Abs(b)]

\* ------------------------------------------------------------------ Operation
\* An Operation value: the variant and its operands (b is PhantomData for Fact)
Operation(o, a, b) == [op |-> o, a |-> a, b |-> b]
NoOp == Operation("None", 0, 0)

NoRes == [kind |-> "None", err |-> "", what |-> "", val |-> NoOp]
OpOk(v) == [NoRes EXCEPT !.kind = "Ok", !.val = v]
OpErr(e, w) == [NoRes EXCEPT !.kind = "Err", !.err = e, !.what = w]
OpPanic(why) == [NoRes EXCEPT !.kind = "Panic", !.err = why]

NoNum == [kind |-> "None", err |-> "", num |-> I64Zero]
NumOk(n) == [NoNum EXCEPT !.kind = "Ok", !.num = n]
NumErr(e) == [NoNum EXCEPT !.kind = "Err", !.err = e]
NumPanic(why) == [NoNum EXCEPT !.kind = "Panic", !.err = why]

\* i8 -> NonZeroI8 (TryFromIntError becomes InvalidParameter through #[from])
NonZeroI8_try_from(b) == b # 0

\* a fault the exactness of Sum, Sub and Mul detects: the arithmetic done at
\* the width of the operands, wrapping to an i8
i16_arith_narrow(n) == ((n + 128) % 256) - 128
\* the i16 that + - * give on operands widened by `as i16`: n itself whenever it
\* fits 16 bits, as every result on two i8 does
i16_arith(n) == ((n + 32768) % 65536) - 32768

\* operation.rs: Operation::reduce
Operation_reduce(o) ==
    CASE o.op = "Sum" -> NumOk(I64(i16_arith(o.a + o.b)))
      [] o.op = "Sub" -> NumOk(I64(i16_arith(o.a - o.b)))
      [] o.op = "Mul" -> NumOk(I64(i16_arith(o.a * o.b)))
      [] o.op = "Div" -> IF i8_div(o.a, o.b).panic
                         THEN NumPanic("attempt to divide with overflow")
                         ELSE NumOk(I64(i8_div(o.a, o.b).v))
      [] o.op = "Rem" -> IF i8_rem(o.a, o.b).panic
                         THEN NumPanic("attempt to calculate the remainder with overflow")
                         ELSE NumOk(I64(i8_rem(o.a, o.b).v))
      [] o.op = "Fact" /\ o.a = 0 -> NumOk(I64(1))
      [] o.op = "Fact" /\ o.a > 0 -> NumOk(FactFold(I64(1), 2, o.a))
      [] OTHER -> NumErr("WrongDomain")

\* lib.rs: Operation::reduce (Fact holds a u8; the result is a bare i64)
lib_Operation_reduce(o) ==
    CASE o.op = "Sum" -> NumOk(I64(i16_arith(o.a + o.b)))
      [] o.op = "Sub" -> NumOk(I64(i16_arith(o.a - o.b)))
      [] o.op = "Mul" -> NumOk(I64(i16_arith(o.a * o.b)))
      [] o.op = "Div" -> IF i8_div(o.a, o.b).panic
                         THEN NumPanic("attempt to divide with overflow")
                         ELSE NumOk(I64(i8_div(o.a, o.b).v))
      [] o.op = "Rem" -> IF i8_rem(o.a, o.b).panic
                         THEN NumPanic("attempt to calculate the remainder with overflow")
                         ELSE NumOk(I64(i8_rem(o.a, o.b).v))
      [] o.op = "Fact" /\ o.a = 0 -> NumOk(I64(1))
      [] OTHER -> NumOk(FactFold(I64(1), 2, o.a))

TagOf(o) ==
    CASE o = "Sum" -> Sum [] o = "Sub" -> Sub [] o = "Mul" -> Mul
      [] o = "Div" -> Div [] o = "Rem" -> Rem [] o = "Fact" -> Fact

\* operation.rs: BinomialOperationData::encode / MonomialOperationData::encode
OperationData_encode(o) ==
    IF o.op = "Fact" THEN <<as_u8(o.a)>> ELSE <<as_u8(o.a), as_u8(o.b)>>

\* operation.rs: Operation::encode (the unwrap of Tlv::encode cannot fail: 1 or 2 bytes)
Operation_encode(o) == Tlv_encode(TagOf(o.op), OperationData_encode(o)).bytes

\* lib.rs: Operation::encode
lib_Operation_encode(o) ==
    IF o.op = "Fact" THEN Tlv_encode(Fact, <<o.a>>).bytes
    ELSE Tlv_encode(TagOf(o.op), <<as_u8(o.a), as_u8(o.b)>>).bytes

NameOf(t) ==
    CASE t = Sum -> "Sum" [] t = Sub -> "Sub" [] t = Mul -> "Mul"
      [] t = Div -> "Div" [] t = Rem -> "Rem" [] t = Fact -> "Fact"
      [] OTHER -> "None"

\* the same conversion with the cast to i8 left out (a fault the wire round trip detects)
BinomialOperationData_from_uncast(o, d) == OpOk(Operation(o, d[1], d[2]))

\* operation.rs: From<[u8; 2]> for BinomialOperationData<i8, i8>
BinomialOperationData_from(o, d) == OpOk(Operation(o, as_i8(d[1]), as_i8(d[2])))

\* the same conversion with the divisor taken as a plain i8, not a NonZeroI8
\* (a fault the zero-divisor rejection detects)
BinomialOperationData_try_from_unchecked(o, d) == OpOk(Operation(o, as_i8(d[1]), as_i8(d[2])))

\* operation.rs: TryFrom<[u8; 2]> for BinomialOperationData<i8, NonZeroI8>
BinomialOperationData_try_from(o, d) ==
    IF NonZeroI8_try_from(as_i8(d[2]))
    THEN OpOk(Operation(o, as_i8(d[1]), as_i8(d[2])))
    ELSE OpErr("InvalidParameter", "")

\* the same conversion with the operand kept as the unsigned byte (a fault the
\* rejection of negative factorials detects)
MonomialOperationData_from_unsigned(o, d) == OpOk(Operation(o, d[1], 0))

\* operation.rs: From<[u8; 1]> for MonomialOperationData<i8>
MonomialOperationData_from(o, d) == OpOk(Operation(o, as_i8(d[1]), 0))

\* a fault the dispatch on (tag, length) detects: a record longer than the
\* operands is accepted
length_is_at_least(l, n) == l >= n
\* the guard of each arm: `if tlv.length == 2`, `if tlv.length == 1`
length_is(l, n) == l = n

\* operation.rs: Operation::try_from(Tlv)
Operation_try_from(tlv) ==
    LET n == NameOf(tlv.tag)
    IN  CASE tlv.tag \in {Sum, Sub, Mul} /\ length_is(tlv.length, 2) ->
                IF Len(tlv.data) # 2 THEN OpErr("NotEnoughData", "")
                ELSE BinomialOperationData_from(n, tlv.data)
          [] tlv.tag \in {Div, Rem} /\ length_is(tlv.length, 2) ->
                IF Len(tlv.data) # 2 THEN OpErr("NotEnoughData", "")
                ELSE BinomialOperationData_try_from(n, tlv.data)
          [] tlv.tag = Fact /\ length_is(tlv.length, 1) ->
                IF Len(tlv.data) # 1 THEN OpErr("NotEnoughData", "")
                ELSE MonomialOperationData_from(n, tlv.data)
          [] OTHER -> OpErr("Generic", "")

\* lib.rs: Operation::try_from(Tlv)
lib_Operation_try_from(tlv) ==
    LET n == NameOf(tlv.tag)
        data == [i \in 1..Len(tlv.data) |-> as_i8(tlv.data[i])]
    IN  CASE tlv.tag \in {Sum, Sub, Mul} /\ length_is(tlv.length, 2) ->
                IF Len(data) < 2 THEN OpPanic("index out of bounds")
                ELSE OpOk(Operation(n, data[1], data[2]))
          [] tlv.tag \in {Div, Rem} /\ length_is(tlv.length, 2) ->
                IF Len(data) < 2 THEN OpPanic("index out of bounds")
                ELSE IF NonZeroI8_try_from(data[2])
                THEN OpOk(Operation(n, data[1], data[2]))
                ELSE OpErr("InvalidParameter", "")
          [] tlv.tag = Fact /\ length_is(tlv.length, 1) ->
                IF Len(tlv.data) < 1 THEN OpPanic("index out of bounds")
                ELSE OpOk(Operation(n, tlv.data[1], 0))
          [] OTHER -> OpErr("Generic", "")

\* ------------------------------------------------------------------ Answer
\* lib.rs: Answer::from(num).encode() (the unwrap of Tlv::encode cannot fail: 8 bytes)
Answer_encode(n) == Tlv_encode(Numi64, i64_to_be_bytes(n)).bytes

\* lib.rs: Answer::try_from(Tlv), the result as Result<i64, TCPLibError>; the
\* conversion of the payload to [u8; 8] fails when it is not 8 bytes long
Answer_try_from(tlv) ==
    IF tlv.tag = Numi64 /\ tlv.length = 8
    THEN IF Len(tlv.data) # 8 THEN NumErr("NotEnoughData")
         ELSE NumOk(i64_from_be_bytes(tlv.data))
    ELSE NumErr("Generic")

\* ------------------------------------------------------------------ text
\* A text is a sequence of characters; the two non-ASCII operator signs are
\* written by their code points.
Times == "U+00D7"
Obelus == "U+00F7"
Digits == <<"0", "1", "2", "3", "4", "5", "6", "7", "8", "9">>
DigitSet == {Digits[i] : i \in 1..10}
DigitVal(c) == (CHOOSE i \in 1..10 : Digits[i] = c) - 1
Whitespace == {" ", "\t"}
\* the character class of the second capture group: [+\-*×x/÷%!]
OperatorClass == {"+", "-", "*", Times, "x", "/", Obelus, "%", "!"}

\* Display of an unsigned and of a signed integer
RECURSIVE fmt_u(_)
fmt_u(n) == IF n < 10 THEN <<Digits[n + 1]>> ELSE fmt_u(n \div 10) \o <<Digits[(n % 10) + 1]>>
fmt_i(n) == IF n < 0 THEN <<"-">> \o fmt_u(0 - n) ELSE fmt_u(n)

OperatorSign(o) ==
    CASE o = "Sum" -> "+" [] o = "Sub" -> "-" [] o = "Mul" -> Times
      [] o = "Div" -> Obelus [] o = "Rem" -> "%" [] o = "Fact" -> "!"

\* operation.rs: Display for Operation
Operation_fmt(o) ==
    IF o.op = "Fact" THEN fmt_i(o.a) \o <<"!">>
    ELSE fmt_i(o.a) \o <<OperatorSign(o.op)>> \o fmt_i(o.b)

\* lib.rs: Display for Operation (Fact holds a u8)
lib_Operation_fmt(o) ==
    IF o.op = "Fact" THEN fmt_u(o.a) \o <<"!">>
    ELSE fmt_i(o.a) \o <<OperatorSign(o.op)>> \o fmt_i(o.b)

\* \s* from position i: the first position that is not whitespace
RECURSIVE SkipWs(_, _)
SkipWs(s, i) == IF i <= Len(s) /\ s[i] \in Whitespace THEN SkipWs(s, i + 1) ELSE i

\* [0-9]* from position i: the first position that is not a digit
RECURSIVE SkipDigits(_, _)
SkipDigits(s, i) == IF i <= Len(s) /\ s[i] \in DigitSet THEN SkipDigits(s, i + 1) ELSE i

\* (\-?[0-9]+) at position i: the position after it, or 0 when it does not match
MatchInt(s, i) ==
    LET d == IF i <= Len(s) /\ s[i] = "-" THEN i + 1 ELSE i
        e == SkipDigits(s, d)
    IN  IF e > d THEN e ELSE 0

NoCaptures == [matched |-> FALSE, a |-> <<>>, o |-> "", has_b |-> FALSE, b |-> <<>>]

\* Regex ^\s*(\-?[0-9]+)\s*([+\-*×x/÷%!])\s*(\-?[0-9]+)?\s*$ : captures(s)
regex_captures(s) ==
    LET a0 == SkipWs(s, 1)
        a1 == MatchInt(s, a0)
        o0 == SkipWs(s, a1)
        b0 == SkipWs(s, o0 + 1)
        b1 == MatchInt(s, b0)
    IN  IF a1 = 0 THEN NoCaptures
        ELSE IF ~(o0 <= Len(s) /\ s[o0] \in OperatorClass) THEN NoCaptures
        ELSE IF b1 # 0
        THEN IF SkipWs(s, b1) = Len(s) + 1
             THEN [matched |-> TRUE, a |-> SubSeq(s, a0, a1 - 1), o |-> s[o0],
                   has_b |-> TRUE, b |-> SubSeq(s, b0, b1 - 1)]
             ELSE NoCaptures
        ELSE IF b0 = Len(s) + 1
             THEN [matched |-> TRUE, a |-> SubSeq(s, a0, a1 - 1), o |-> s[o0],
                   has_b |-> FALSE, b |-> <<>>]
             ELSE NoCaptures

\* the digits of str::parse::<i8>, folded with checked arithmetic
RECURSIVE parse_digits(_, _, _, _)
parse_digits(t, i, v0, neg) ==
    IF i > Len(t) THEN [ok |-> TRUE, v |-> v0]
    ELSE LET n == IF neg THEN v0 * 10 - DigitVal(t[i]) ELSE v0 * 10 + DigitVal(t[i])
         IN  IF n > 127 \/ n < -128 THEN [ok |-> FALSE, v |-> 0]
             ELSE parse_digits(t, i + 1, n, neg)

\* str::parse::<i8> of a text the regex captured
parse_i8(t) == IF t[1] = "-" THEN parse_digits(t, 2, 0, TRUE) ELSE parse_digits(t, 1, 0, FALSE)

\* operation.rs: Operation::from_str
Operation_from_str(s) ==
    LET m == regex_captures(s)
        a == parse_i8(m.a)
        b == IF m.has_b THEN parse_i8(m.b) ELSE [ok |-> TRUE, v |-> 0]
    IN  IF ~m.matched THEN OpErr("Parse", "")
        ELSE IF ~a.ok \/ ~b.ok THEN OpErr("ParseIntError", "")
        ELSE CASE m.o = "+" /\ m.has_b -> OpOk(Operation("Sum", a.v, b.v))
               [] m.o = "-" /\ m.has_b -> OpOk(Operation("Sub", a.v, b.v))
               [] m.o \in {"*", Times, "x"} /\ m.has_b -> OpOk(Operation("Mul", a.v, b.v))
               [] m.o \in {"/", Obelus} /\ m.has_b ->
                      IF NonZeroI8_try_from(b.v) THEN OpOk(Operation("Div", a.v, b.v))
                      ELSE OpErr("InvalidParameter", "")
               [] m.o = "%" /\ m.has_b ->
                      IF NonZeroI8_try_from(b.v) THEN OpOk(Operation("Rem", a.v, b.v))
                      ELSE OpErr("InvalidParameter", "")
               [] m.o = "!" /\ ~m.has_b /\ a.v >= 0 -> OpOk(Operation("Fact", a.v, 0))
               [] OTHER -> OpErr("UnsupportedOperation", m.o)

\* lib.rs: Operation::from_str
lib_Operation_from_str(s) ==
    LET m == regex_captures(s)
        a == parse_i8(m.a)
        b == IF m.has_b THEN parse_i8(m.b) ELSE [ok |-> TRUE, v |-> 0]
    IN  IF ~m.matched THEN OpErr("Parse", "")
        ELSE IF ~a.ok \/ ~b.ok THEN OpErr("ParseIntError", "")
        ELSE CASE m.o = "+" /\ m.has_b -> OpOk(Operation("Sum", a.v, b.v))
               [] m.o = "-" /\ m.has_b -> OpOk(Operation("Sub", a.v, b.v))
               [] m.o \in {"*", Times, "x"} /\ m.has_b -> OpOk(Operation("Mul", a.v, b.v))
               [] m.o \in {"/", Obelus} /\ m.has_b ->
                      IF NonZeroI8_try_from(b.v) THEN OpOk(Operation("Div", a.v, b.v))
                      ELSE OpErr("InvalidParameter", "")
               [] m.o = "%" /\ m.has_b ->
                      IF NonZeroI8_try_from(b.v) THEN OpOk(Operation("Rem", a.v, b.v))
                      ELSE OpErr("InvalidParameter", "")
               [] m.o = "!" /\ ~m.has_b ->
                      IF a.v >= 0 THEN OpOk(Operation("Fact", a.v, 0))
                      ELSE OpErr("InvalidParameter", "")
               [] OTHER -> OpErr("UnsupportedOperation", m.o)

\* ------------------------------------------------------------------ inputs
\* i8 operands: a range around zero, the edges of i8 and the factorials
\* around the saturation point
I8Samples == (-MaxOperand..MaxOperand) \cup {-128, -127, 127} \cup {5, 20, 21}
\* payload bytes: those operands on the wire
U8Samples == {as_u8(x) : x \in I8Samples}

\* the Operation values each variant can hold
Operations(i) ==
    {Operation(o, a, b) : o \in {"Sum", "Sub", "Mul"}, a \in I8Samples, b \in I8Samples}
    \cup {Operation(o, a, b) : o \in {"Div", "Rem"}, a \in I8Samples, b \in I8Samples \ {0}}
    \cup {Operation("Fact", a, 0) : a \in IF i = "lib" THEN U8Samples ELSE I8Samples}

\* one record on the transport, complete or cut short, of any tag
Payloads ==
    {<<>>} \cup {<<x>> : x \in U8Samples} \cup {<<x, y>> : x \in U8Samples, y \in U8Samples}
    \cup {<<x, y, 0>> : x \in {0, 1}, y \in {0, 1}} \cup {Fill(8, 0), Fill(8, 255)}
Wires ==
    {Tlv_encode(t, d).bytes : t \in TlvType \cup {0, 127}, d \in Payloads}
    \cup {<<t, 2, 5>> : t \in TlvType} \cup {<<>>, <<Sum>>}

\* lines of text: an integer, an operator and an integer, each present or not,
\* with or without whitespace around them
IntTexts ==
    {fmt_i(x) : x \in I8Samples}
    \cup {<<"1", "2", "8">>, <<"-", "1", "2", "9">>, <<"2", "0", "0">>,
          <<"-", "0">>, <<"0", "0", "7">>}
Texts ==
    {w \o a \o w \o o \o w \o b \o w :
        w \in {<<>>, <<" ">>},
        a \in IntTexts \cup {<<>>},
        o \in {<<c>> : c \in OperatorClass \cup {"^"}} \cup {<<>>},
        b \in IntTexts \cup {<<>>}}

\* buffers handed to the iterator: complete records of every length a record
\* can have, then a cut record or bytes that are no record
Record(t, d) == [tag |-> t, data |-> d]
RecordSamples ==
    {Record(Sum, <<5, 3>>), Record(Sub, <<9, 4>>), Record(Fact, <<5>>), Record(Mul, <<>>),
     Record(Numi64, <<0, 0, 0, 0, 0, 0, 0, 19>>),
     Record(Sum, Fill(253, 7)), Record(Div, Fill(254, 7)), Record(Rem, Fill(255, 7))}
Encoded(r) == Tlv_encode(r.tag, r.data).bytes
RECURSIVE Concat(_, _)
Concat(rs, i) == IF i > Len(rs) THEN <<>> ELSE Encoded(rs[i]) \o Concat(rs, i + 1)
\* the strict prefixes of a record that keep its first bytes, or all but its last
Prefixes(r) ==
    {SubSeq(Encoded(r), 1, k) : k \in {0, 1, 2, 3, Len(Encoded(r)) - 1} \cap (0..(Len(Encoded(r)) - 1))}
CutRecords == UNION {Prefixes(r) : r \in RecordSamples}
Garbage ==
    {<<127, 0>>, <<127, 255>>, <<0, 254, 1>>, <<127, 5>>, <<0, 2, 1>>,
     <<127, 0>> \o Encoded(Record(Sum, <<5, 3>>)),
     <<127, 2, 1, 2>> \o Encoded(Record(Fact, <<5>>))}

\* ------------------------------------------------------------------ states
IdleTlv ==
    /\ records = <<>> /\ tail = <<>> /\ buf = <<>> /\ index = 0
    /\ yielded = <<>> /\ ret = "idle" /\ last = NoTlv /\ last_at = 0

IdleOp ==
    /\ impl = "operation" /\ pc = "idle" /\ origin = "none" /\ text = <<>>
    /\ parsed = NoRes /\ op = NoOp /\ wire = <<>> /\ decoded = NoRes
    /\ result = NoNum /\ shown = <<>> /\ reparsed = NoRes /\ result2 = NoNum

IdleAns == apc = "idle" /\ aorigin = "none" /\ num = I64Zero /\ awire = <<>> /\ answer = NoNum

IdleSes ==
    /\ spc = "idle" /\ conn = 0 /\ acc = I64Zero /\ pending = <<>> /\ closed = FALSE
    /\ sent = <<>> /\ sbuf = <<>> /\ sindex = 0 /\ outbox = <<>> /\ total = 0
    /\ printed = <<>>

\* TlvIterator::process over a buffer read from the transport
InitTlv ==
    /\ overflow_checks \in BOOLEAN
    /\ records \in UNION {[1..n -> RecordSamples] : n \in 0..MaxRecords}
    /\ tail \in CutRecords \cup Garbage
    /\ buf = TlvIterator_process(Concat(records, 1) \o tail).buf
    /\ index = TlvIterator_process(Concat(records, 1) \o tail).index
    /\ yielded = <<>> /\ ret = "fresh" /\ last = NoTlv /\ last_at = 0
    /\ IdleOp /\ IdleAns /\ IdleSes

\* one call of TlvIterator::next, as the responder's for loop makes it
IterNext ==
    /\ ret \in {"fresh", "Some", "None"}
    /\ LET n == TlvIterator_next(buf, index, overflow_checks)
       IN  /\ index' = n.index
           /\ ret' = n.ret
           /\ yielded' = IF n.ret = "Some" THEN Append(yielded, n.tlv) ELSE yielded
           /\ last' = n.tlv
           /\ last_at' = index
    /\ UNCHANGED <<overflow_checks, records, tail, buf, opVars, ansVars, sesVars>>

NextTlv == IterNext

SpecTlv == InitTlv /\ [][NextTlv]_vars

\* a line typed at the requester, an Operation it holds, or bytes a peer sent
InitOp ==
    /\ overflow_checks \in BOOLEAN
    /\ impl \in {"operation", "lib"}
    /\ \/ origin = "text" /\ pc = "text" /\ text \in Texts /\ op = NoOp /\ wire = <<>>
       \/ origin = "op" /\ pc = "op" /\ text = <<>> /\ op \in Operations(impl) /\ wire = <<>>
       \/ origin = "wire" /\ pc = "wire" /\ text = <<>> /\ op = NoOp /\ wire \in Wires
    /\ parsed = NoRes /\ decoded = NoRes /\ result = NoNum
    /\ shown = <<>> /\ reparsed = NoRes /\ result2 = NoNum
    /\ IdleTlv /\ IdleAns /\ IdleSes

\* tcp1cli: iline.parse::<Operation>()
FromStr ==
    /\ pc = "text"
    /\ parsed' = IF impl = "lib" THEN lib_Operation_from_str(text) ELSE Operation_from_str(text)
    /\ op' = parsed'.val
    /\ pc' = IF parsed'.kind = "Ok" THEN "op" ELSE "done"
    /\ UNCHANGED <<overflow_checks, tlvVars, ansVars, sesVars, impl, origin, text, wire, decoded, result,
                   shown, reparsed, result2>>

\* tcp1cli: stream.write_all(&operation.encode())
Encode ==
    /\ pc = "op"
    /\ wire' = IF impl = "lib" THEN lib_Operation_encode(op) ELSE Operation_encode(op)
    /\ pc' = "wire"
    /\ UNCHANGED <<overflow_checks, tlvVars, ansVars, sesVars, impl, origin, text, parsed, op, decoded, result,
                   shown, reparsed, result2>>

\* tcp1ser: the first record of the read, tlv.try_into()
Decode ==
    /\ pc = "wire"
    /\ LET n == TlvIterator_next(TlvIterator_process(wire).buf, TlvIterator_process(wire).index,
                                 overflow_checks)
       IN  /\ decoded' = IF n.ret # "Some" THEN NoRes
                         ELSE IF impl = "lib" THEN lib_Operation_try_from(n.tlv)
                         ELSE Operation_try_from(n.tlv)
           /\ pc' = IF n.ret = "panic" \/ decoded'.kind = "Panic" THEN "panicked"
                    ELSE IF decoded'.kind = "Ok" THEN "decoded" ELSE "done"
    /\ UNCHANGED <<overflow_checks, tlvVars, ansVars, sesVars, impl, origin, text, parsed, op, wire, result,
                   shown, reparsed, result2>>

\* tcp1ser: op.reduce()
Reduce ==
    /\ pc = "decoded"
    /\ result' = IF impl = "lib" THEN lib_Operation_reduce(decoded.val)
                 ELSE Operation_reduce(decoded.val)
    /\ pc' = IF result'.kind = "Panic" THEN "panicked" ELSE "reduced"
    /\ UNCHANGED <<overflow_checks, tlvVars, ansVars, sesVars, impl, origin, text, parsed, op, wire, decoded,
                   shown, reparsed, result2>>

\* Display of the decoded Operation (format!("{}"), as tcp1ser and tcp1cli print
\* it); a caller holding the Operation can format it whatever reduce returned
Display ==
    /\ pc = "reduced"
    /\ shown' = IF impl = "lib" THEN lib_Operation_fmt(decoded.val) ELSE Operation_fmt(decoded.val)
    /\ pc' = "shown"
    /\ UNCHANGED <<overflow_checks, tlvVars, ansVars, sesVars, impl, origin, text, parsed, op, wire, decoded,
                   result, reparsed, result2>>

\* the displayed text parsed again and the Operation it gives reduced
Reparse ==
    /\ pc = "shown"
    /\ reparsed' = IF impl = "lib" THEN lib_Operation_from_str(shown) ELSE Operation_from_str(shown)
    /\ result2' = IF reparsed'.kind # "Ok" THEN NoNum
                  ELSE IF impl = "lib" THEN lib_Operation_reduce(reparsed'.val)
                  ELSE Operation_reduce(reparsed'.val)
    /\ pc' = "done"
    /\ UNCHANGED <<overflow_checks, tlvVars, ansVars, sesVars, impl, origin, text, parsed, op, wire, decoded,
                   result, shown>>

NextOp == FromStr \/ Encode \/ Decode \/ Reduce \/ Display \/ Reparse

SpecOp == InitOp /\ [][NextOp]_vars

\* ------------------------------------------------------------------ Answer runs
\* the i64 an Answer carries: small values of either sign, values filling
\* 2, 3 and 8 bytes, and the two ends of the type
I64Samples ==
    {I64(x) : x \in (-MaxOperand..MaxOperand) \cup {-255, 254, -256, 16384, -65536}}
    \cup {I64_MAX, I64_MIN, [neg |-> TRUE, mag |-> I64_MAX.mag],
          [neg |-> FALSE, mag |-> <<8, 7, 6, 5, 4, 3, 2, 1>>],
          [neg |-> TRUE, mag |-> <<8, 7, 6, 5, 4, 3, 2, 1>>]}

\* replies as a peer may send them: records of any tag and length, cut ones,
\* and Num64 records of 7, 8 and 9 bytes
AnswerWires ==
    Wires \cup {Tlv_encode(Numi64, d).bytes :
                   d \in {Fill(7, 1), Fill(9, 1), <<128, 0, 0, 0, 0, 0, 0, 0>>,
                          <<255, 255, 255, 255, 255, 255, 255, 1>>}}

\* an i64 the responder answers with, or the bytes the requester has read
InitAnswer ==
    /\ overflow_checks \in BOOLEAN
    /\ \/ aorigin = "num" /\ apc = "num" /\ num \in I64Samples /\ awire = <<>>
       \/ aorigin = "wire" /\ apc = "wire" /\ num = I64Zero /\ awire \in AnswerWires
    /\ answer = NoNum
    /\ IdleTlv /\ IdleOp /\ IdleSes

\* tcp1ser: Answer::from(acc).encode(), written to the stream
AnswerEncode ==
    /\ apc = "num"
    /\ awire' = Answer_encode(num)
    /\ apc' = "wire"
    /\ UNCHANGED <<overflow_checks, tlvVars, opVars, sesVars, aorigin, num, answer>>

\* tcp1cli: Answer::try_from(Tlv::try_from(&buffer[..len])?)?
AnswerDecode ==
    /\ apc = "wire"
    /\ LET tlv == Tlv_try_from(awire, overflow_checks)
       IN  answer' = IF tlv.kind = "Ok" THEN Answer_try_from(tlv)
                     ELSE IF tlv.kind = "Err" THEN NumErr(tlv.err)
                     ELSE NumPanic(tlv.err)
    /\ apc' = "done"
    /\ UNCHANGED <<overflow_checks, tlvVars, opVars, sesVars, aorigin, num, awire>>

NextAnswer == AnswerEncode \/ AnswerDecode

SpecAnswer == InitAnswer /\ [][NextAnswer]_vars

\* ------------------------------------------------------------------ session
\* the encoded Operations a requester sends: a small result, one that
\* saturates the accumulator, the quotient that overflows an i8 and a
\* factorial of a negative operand
OperationRequests ==
    {Operation_encode(o) :
        o \in {Operation("Sum", 1, 2), Operation("Fact", 21, 0),
               Operation("Div", -128, -1), Operation("Fact", -1, 0)}}
\* records that are no Operation: a zero divisor, a Num64 tag, a wrong length
FailingRecords == {<<Div, 2, 5, 0>>, <<Numi64, 1, 7>>, <<Sum, 1, 9>>}
SessionRecords == OperationRequests \cup FailingRecords

\* tcp1ser.rs:41-50: the listener is bound and acc is 0
InitSession ==
    /\ overflow_checks \in BOOLEAN
    /\ spc = "accept" /\ conn = 0 /\ acc = I64Zero
    /\ pending = <<>> /\ closed = FALSE /\ sent = <<>>
    /\ sbuf = <<>> /\ sindex = 0 /\ outbox = <<>> /\ total = 0 /\ printed = <<>>
    /\ IdleTlv /\ IdleOp /\ IdleAns

\* listener.accept() returns the next connection; acc, declared before the
\* loop, keeps its value
Accept ==
    /\ spc = "accept" /\ conn < MaxConns
    /\ spc' = "read"
    /\ conn' = conn + 1
    /\ pending' = <<>> /\ closed' = FALSE /\ sent' = <<>> /\ outbox' = <<>> /\ printed' = <<>>
    /\ UNCHANGED <<overflow_checks, tlvVars, opVars, ansVars, acc, sbuf, sindex, total>>

\* the requester writes one record on the open connection
Send ==
    /\ spc \in {"read", "for"} /\ ~closed /\ total < MaxSent
    /\ \E r \in SessionRecords :
          /\ pending' = pending \o r
          /\ sent' = Append(sent, r)
    /\ total' = total + 1
    /\ UNCHANGED <<overflow_checks, tlvVars, opVars, ansVars, spc, conn, acc, closed, sbuf,
                   sindex, outbox, printed>>

\* the requester closes the connection
Close ==
    /\ spc \in {"read", "for"} /\ ~closed
    /\ closed' = TRUE
    /\ UNCHANGED <<overflow_checks, tlvVars, opVars, ansVars, spc, conn, acc, pending, sent,
                   sbuf, sindex, outbox, total, printed>>

\* stream.read returns Ok(len), len > 0: any non-empty prefix of the bytes in
\* flight, as a stream transport delivers them; the for loop starts on it
ReadData ==
    /\ spc = "read" /\ pending # <<>>
    /\ \E len \in 1..Len(pending) :
          /\ sbuf' = TlvIterator_process(SubSeq(pending, 1, len)).buf
          /\ sindex' = TlvIterator_process(SubSeq(pending, 1, len)).index
          /\ pending' = SubSeq(pending, len + 1, Len(pending))
    /\ spc' = "for"
    /\ UNCHANGED <<overflow_checks, tlvVars, opVars, ansVars, conn, acc, closed, sent, outbox,
                   total, printed>>

\* stream.read returns Ok(0) on the closed connection: `_ => break`, back to accept
ReadEof ==
    /\ spc = "read" /\ pending = <<>> /\ closed
    /\ spc' = "accept"
    /\ UNCHANGED <<overflow_checks, tlvVars, opVars, ansVars, conn, acc, pending, closed, sent,
                   sbuf, sindex, outbox, total, printed>>

\* one turn of the for loop: next() on the iterator, then the body on the item.
\* A panic ends the process; None ends the loop; a record that fails
\* conversion or evaluation is logged on stderr; a result is added to acc, the
\* Answer written (to a closed peer too: the write is buffered) and the line printed
ForStep ==
    /\ spc = "for"
    /\ LET n == TlvIterator_next(sbuf, sindex, overflow_checks)
           o == Operation_try_from(n.tlv)
           r == Operation_reduce(o.val)
       IN  IF n.ret = "panic" \/ (n.ret = "Some" /\ o.kind = "Ok" /\ r.kind = "Panic")
           THEN /\ spc' = "dead"
                /\ UNCHANGED <<acc, sbuf, sindex, outbox, printed>>
           ELSE IF n.ret = "None"
           THEN /\ spc' = "read" /\ sbuf' = <<>> /\ sindex' = 0
                /\ UNCHANGED <<acc, outbox, printed>>
           ELSE IF o.kind = "Ok" /\ r.kind = "Ok"
           THEN /\ acc' = saturating_add(acc, r.num)
                /\ outbox' = Append(outbox, Answer_encode(acc'))
                /\ printed' = Append(printed, r.num)
                /\ sindex' = n.index
                /\ UNCHANGED <<spc, sbuf>>
           ELSE /\ sindex' = n.index
                /\ UNCHANGED <<spc, acc, sbuf, outbox, printed>>
    /\ UNCHANGED <<overflow_checks, tlvVars, opVars, ansVars, conn, pending, closed, sent, total>>

NextSession == Accept \/ Send \/ Close \/ ReadData \/ ReadEof \/ ForStep

SpecSession == InitSession /\ [][NextSession]_vars

\* ------------------------------------------------------------------ properties
\* positions of the pipeline
Parsed == origin = "text" /\ pc # "text"
WasEncoded == origin \in {"text", "op"} /\ pc \notin {"text", "op"} /\ op # NoOp
DecodeDone == pc \in {"decoded", "reduced", "shown", "done", "panicked"} /\ (origin = "wire" \/ WasEncoded)
Reduced == decoded.kind = "Ok" /\ pc \in {"reduced", "shown", "done", "panicked"}
Finished == pc \in {"done", "panicked"}

\* the bytes Tlv::try_from was given by the last call of next()
Rest == Slice(buf, last_at, Len(buf))
Called == ret \in {"Some", "None", "panic"}
AsYielded(r) == TlvOk(r.tag, Len(r.data), r.data)

\* C1: Decode is total: on every buffer it returns a record or one of the
\* failures UnknownTag / WrongFormat, and never panics.
C1_DecodeTotal ==
    Called => \/ last.kind = "Ok"
              \/ last.kind = "Err" /\ last.err \in {"TagUnknown", "WrongFormat"}

\* C2: with at least 2 bytes, a known tag and length byte L: Decode succeeds
\* with (buffer[0], L, buffer[2..2+L]) and consumes 2+L bytes when the buffer
\* holds 2+L bytes, and fails with WrongFormat when it does not; a buffer
\* shorter than 2 bytes fails with WrongFormat.
C2_DecodeLength ==
    Called =>
        /\ Len(Rest) < 2 => last = TlvErr("WrongFormat", 0) /\ index = last_at
        /\ Len(Rest) >= 2 /\ Rest[1] \in TlvType =>
              IF Len(Rest) >= 2 + Rest[2]
              THEN /\ last = TlvOk(Rest[1], Rest[2], Slice(Rest, 2, 2 + Rest[2]))
                   /\ index = last_at + 2 + Rest[2]
              ELSE last = TlvErr("WrongFormat", 0) /\ index = last_at

\* C3: over N valid records followed by a strict prefix of a further valid
\* record the iterator yields exactly the N records, in order, and then ends
\* with no extra item and no error.
C3_Framing ==
    tail \in CutRecords =>
        /\ ret # "panic"
        /\ Len(yielded) <= Len(records)
        /\ \A i \in 1..Len(yielded) : yielded[i] = AsYielded(records[i])
        /\ ret = "None" => Len(yielded) = Len(records)

\* the truncating quotient of a by b, from its definition
TruncQuot(a, b) ==
    CHOOSE q \in -128..128 :
        /\ Abs(a - q * b) < Abs(b)
        /\ a - q * b = 0 \/ ((a - q * b < 0) = (a < 0))

\* C4: Evaluate(Div{a,b}) is the truncating quotient and Evaluate(Rem{a,b}) the
\* remainder with the sign of the dividend, for every a and every non-zero b,
\* Div{-128,-1} = 128 and Rem{-128,-1} = 0 included.
C4_DivRem ==
    Reduced =>
        LET a == decoded.val.a
            b == decoded.val.b
        IN  /\ decoded.val.op = "Div" => result = NumOk(I64(TruncQuot(a, b)))
            /\ decoded.val.op = "Rem" => result = NumOk(I64(a - TruncQuot(a, b) * b))

Arity(o) == IF o = "Fact" THEN 1 ELSE 2
\* byte w carries operand x
Carries(w, x) == w \in Byte /\ (w - x) % 256 = 0

\* C5: Encode(op) is [tag, arity, operand bytes] and decoding it gives back the
\* same variant with the same operands.
C5_WireRoundTrip ==
    /\ WasEncoded =>
          /\ Len(wire) = 2 + Arity(op.op)
          /\ wire[1] = TagOf(op.op)
          /\ wire[2] = Arity(op.op)
          /\ Carries(wire[3], op.a)
          /\ op.op # "Fact" => Carries(wire[4], op.b)
    /\ WasEncoded /\ DecodeDone => decoded = OpOk(op)

C5_Witness ==
    /\ impl = "operation" /\ origin = "op" /\ pc = "decoded"
    /\ op = Operation("Rem", -128, -1) /\ wire = <<Rem, 2, 128, 255>> /\ decoded = OpOk(op)

\* C6: the Display text of every decoded Operation parses, and the parsed
\* Operation evaluates to the same result as the original.
C6_TextRoundTrip ==
    WasEncoded /\ decoded.kind = "Ok" /\ Finished =>
        /\ pc = "done"
        /\ reparsed.kind = "Ok"
        /\ result2 = result

ZeroDivisorTexts ==
    {fmt_i(a) \o <<c>> \o <<"0">> : a \in -128..127, c \in {"/", Obelus, "%"}}
ZeroDivisor(o) == o.op \in {"Div", "Rem"} /\ o.b = 0

\* C7: a Div or Rem record of length 2 whose second payload byte is 0, and a
\* text a/0, a÷0 or a%0, fail with InvalidParameter; no Div or Rem with a zero
\* divisor is ever constructed or evaluated.
C7_ZeroDivisor ==
    /\ origin = "wire" /\ DecodeDone /\ Len(wire) >= 4 /\ wire[1] \in {Div, Rem}
         /\ wire[2] = 2 /\ wire[4] = 0
       => decoded = OpErr("InvalidParameter", "")
    /\ Parsed /\ text \in ZeroDivisorTexts => parsed = OpErr("InvalidParameter", "")
    /\ ~ZeroDivisor(parsed.val) /\ ~ZeroDivisor(op) /\ ~ZeroDivisor(decoded.val)
    /\ ~ZeroDivisor(reparsed.val)

C7_Witness ==
    /\ origin = "wire" /\ pc = "done" /\ wire = <<Div, 2, 5, 0>>
    /\ decoded = OpErr("InvalidParameter", "")

NegativeFactRecord == Len(wire) = 3 /\ wire[1] = Fact /\ wire[2] = 1 /\ wire[3] >= 128

\* C8 as stated: Evaluate is never reached with a negative factorial operand,
\* because Decode cannot construct such an Operation.
C8_NeverEvaluated ==
    ~(decoded.kind = "Ok" /\ decoded.val.op = "Fact" /\ decoded.val.a < 0 /\ result # NoNum)

\* C8: a Fact record whose payload byte is 0x80..0xFF is decoded by operation.rs
\* into Fact with the negative operand byte-256 and Evaluate, reached with it,
\* fails with WrongDomain; lib.rs holds the operand as the unsigned byte; in
\* neither does Evaluate give a value for a negative factorial operand.
C8_NegativeFactRejected ==
    /\ NegativeFactRecord /\ DecodeDone =>
          decoded = OpOk(Operation("Fact", IF impl = "lib" THEN wire[3] ELSE wire[3] - 256, 0))
    /\ NegativeFactRecord /\ Reduced /\ impl = "operation" => result = NumErr("WrongDomain")
    /\ Reduced /\ decoded.val.op = "Fact" /\ decoded.val.a < 0 => result.kind = "Err"

C8_Witness ==
    /\ impl = "operation" /\ origin = "wire" /\ wire = <<Fact, 1, 255>> /\ pc = "reduced"
    /\ decoded.val.a = -1 /\ result = NumErr("WrongDomain")

NegativeFactTexts == {<<"-">> \o fmt_u(n) \o <<"!">> : n \in 1..128}

\* C9: parsing -n! fails with the domain error kind of the decode path
\* (InvalidParameter), not with UnsupportedOperation or Parse.
C9_NegativeFactParse ==
    Parsed /\ text \in NegativeFactTexts => parsed = OpErr("InvalidParameter", "")

UnknownOperatorTexts ==
    {a \o <<"^">> \o b : a \in IntTexts, b \in IntTexts \cup {<<>>}}

\* C10: a text integer, operator, optional integer whose operator is not one
\* of + - * × x / ÷ % ! fails with UnsupportedOperation carrying that operator.
C10_UnsupportedOperator ==
    Parsed /\ text \in UnknownOperatorTexts => parsed = OpErr("UnsupportedOperation", "^")

BinarySigns == {"+", "-", "*", Times, "x", "/", Obelus, "%"}
\* the four malformed shapes, over operands that fit an i8
NoLeadingInteger ==
    {<<>>, <<"-">>} \cup {<<c>> \o b : c \in OperatorClass \ {"-"}, b \in {<<>>, <<"1">>}}
NoOperator == {fmt_i(a) : a \in I8Samples} \cup {<<" ", "5", " ", " ", "1", " ">>}
MissingSecondInteger == {fmt_i(a) \o <<c>> : a \in I8Samples, c \in BinarySigns}
ForbiddenSecondInteger == {fmt_i(a) \o <<"!">> \o fmt_i(b) : a \in {0, 5}, b \in {0, 1, -1}}
MalformedShapeTexts ==
    NoLeadingInteger \cup NoOperator \cup MissingSecondInteger \cup ForbiddenSecondInteger

\* C11: a text of malformed overall shape fails with Parse: no leading
\* integer, no operator, a binary operator with the second integer missing
\* ('5+'), factorial with a second integer present ('5!3').
C11_MalformedShape ==
    Parsed /\ text \in MalformedShapeTexts => parsed = OpErr("Parse", "")

\* C12: on a buffer of at least 2 bytes whose first byte is no tag code Decode
\* fails with UnknownTag carrying that byte, whatever the length byte and
\* whether or not the payload it announces is in the buffer.
C12_UnknownTag ==
    Called /\ Len(Rest) >= 2 /\ Rest[1] \notin TlvType =>
        last = TlvErr("TagUnknown", Rest[1]) /\ index = last_at

\* n! as an integer, for the n whose factorial fits 32 bits
RECURSIVE NatFact(_)
NatFact(n) == IF n <= 1 THEN 1 ELSE n * NatFact(n - 1)
\* 13! .. 20! as the 8 little-endian bytes of the magnitude
BigFact(a) ==
    CASE
          a = 13 -> <<0, 204, 40, 115, 1, 0, 0, 0>>
       [] a = 14 -> <<0, 40, 59, 76, 20, 0, 0, 0>>
       [] a = 15 -> <<0, 88, 119, 119, 48, 1, 0, 0>>
       [] a = 16 -> <<0, 128, 117, 119, 7, 19, 0, 0>>
       [] a = 17 -> <<0, 128, 205, 238, 126, 67, 1, 0>>
       [] a = 18 -> <<0, 0, 115, 202, 236, 190, 22, 0>>
       [] a = 19 -> <<0, 0, 137, 6, 147, 43, 176, 1>>
       [] a = 20 -> <<0, 0, 180, 130, 124, 103, 195, 33>>
\* the value the factorial of a >= 0 has to evaluate to
ExpectedFact(a) ==
    IF a <= 12 THEN I64(NatFact(a))
    ELSE IF a <= 20 THEN [neg |-> FALSE, mag |-> BigFact(a)]
    ELSE I64_MAX

\* C14: Evaluate(Fact{a}) is 1 for a = 0, the exact product 1*2*...*a for a in
\* 1..20 and the 64-bit signed maximum for every a >= 21 the operand can hold:
\* the product never wraps and, once saturated, stays at the maximum.
C14_Factorial ==
    Reduced /\ decoded.val.op = "Fact" /\ decoded.val.a >= 0 =>
        result = NumOk(ExpectedFact(decoded.val.a))

C14_Witness ==
    /\ pc = "reduced" /\ decoded = OpOk(Operation("Fact", 21, 0))
    /\ result = NumOk(I64_MAX)

\* C15: for every a and b of -128..127 Sum{a,b}, Sub{a,b} and Mul{a,b} evaluate
\* to a+b, a-b and a*b as exact integers, no intermediate overflowing:
\* Sum{127,127} = 254, Sub{-128,127} = -255, Mul{-128,-128} = 16384.
C15_Exact ==
    Reduced =>
        LET o == decoded.val
        IN  /\ o.op = "Sum" => result = NumOk(I64(o.a + o.b))
            /\ o.op = "Sub" => result = NumOk(I64(o.a - o.b))
            /\ o.op = "Mul" => result = NumOk(I64(o.a * o.b))
            /\ o = Operation("Sum", 127, 127) =>
                  result.num = [neg |-> FALSE, mag |-> <<254, 0, 0, 0, 0, 0, 0, 0>>]
            /\ o = Operation("Sub", -128, 127) =>
                  result.num = [neg |-> TRUE, mag |-> <<255, 0, 0, 0, 0, 0, 0, 0>>]
            /\ o = Operation("Mul", -128, -128) =>
                  result.num = [neg |-> FALSE, mag |-> <<0, 64, 0, 0, 0, 0, 0, 0>>]

C15_Witness ==
    /\ pc = "reduced" /\ decoded = OpOk(Operation("Mul", -128, -128))
    /\ result = NumOk([neg |-> FALSE, mag |-> <<0, 64, 0, 0, 0, 0, 0, 0>>])

\* the bytes received start with a whole record of a known tag
Framed == Tlv_try_from(wire, overflow_checks).kind = "Ok"

\* C18: Operation Decode dispatches on (tag, length): it succeeds only for
\* Sum/Sub/Mul/Div/Rem of length 2 and Fact of length 1; every other pair, a
\* Num64 record and an operation tag of a wrong length included, fails with
\* Generic; the operands are read inside the record.
C18_Dispatch ==
    origin = "wire" /\ DecodeDone /\ Framed =>
        /\ decoded.kind \in {"Ok", "Err"}
        /\ IF \/ wire[1] \in {Sum, Sub, Mul, Div, Rem} /\ wire[2] = 2
              \/ wire[1] = Fact /\ wire[2] = 1
           THEN \/ /\ decoded.kind = "Ok"
                   /\ decoded.val.op = NameOf(wire[1])
                   /\ Carries(wire[3], decoded.val.a)
                   /\ wire[1] # Fact => Carries(wire[4], decoded.val.b)
                \/ /\ decoded = OpErr("InvalidParameter", "")
                   /\ wire[1] \in {Div, Rem} /\ wire[4] = 0
           ELSE decoded = OpErr("Generic", "")

C18_Witness ==
    /\ origin = "wire" /\ pc = "done" /\ wire = <<Sum, 3, 0, 1, 0>>
    /\ decoded = OpErr("Generic", "")

\* the bytes at the cursor of the last call start with a whole record of a
\* known tag
RecordAtCursor ==
    /\ Len(Rest) >= 2 /\ Rest[1] \in TlvType
    /\ Len(Rest) >= 2 + Rest[2]

\* C17: at the first cursor position where Decode fails for any reason
\* (insufficient data, unknown tag) the iterator yields nothing, surfaces no
\* error and leaves the cursor unchanged; the records yielded are those before
\* that position only, whatever follows it in the buffer.
C17_EndsAtFailure ==
    Called /\ ~RecordAtCursor =>
        /\ ret = "None"
        /\ index = last_at
        /\ Len(Concat([i \in 1..Len(yielded) |-> Record(yielded[i].tag, yielded[i].data)], 1))
              = last_at

\* bytes be are the big-endian two's complement of n: a value that is not
\* negative has its magnitude as bytes; a negative one has bytes that add up
\* with its magnitude to 2^64
BigEndianOf(be, n) ==
    /\ Len(be) = 8
    /\ IF n.neg THEN AddMag(Reverse(be), n.mag, 1, 0) = Fill(8, 0) \o <<1>>
       ELSE \A i \in 1..8 : be[i] = n.mag[9 - i]

\* C16: Encode(Answer n) is the 10 bytes [0x10, 0x08, the 8 big-endian bytes of
\* n] and decoding them returns n; decoding a record whose tag is not Num64 or
\* whose length is not 8 fails with Generic.
C16_AnswerCodec ==
    /\ aorigin = "num" /\ apc # "num" =>
          /\ Len(awire) = 10 /\ awire[1] = 16 /\ awire[2] = 8
          /\ BigEndianOf(SubSeq(awire, 3, 10), num)
          /\ num = I64(-2) => awire = <<16, 8, 255, 255, 255, 255, 255, 255, 255, 254>>
          /\ num = I64(16384) => awire = <<16, 8, 0, 0, 0, 0, 0, 0, 64, 0>>
          /\ num = I64_MIN => awire = <<16, 8, 128, 0, 0, 0, 0, 0, 0, 0>>
          /\ num = I64_MAX => awire = <<16, 8, 127, 255, 255, 255, 255, 255, 255, 255>>
    /\ aorigin = "num" /\ apc = "done" => answer = NumOk(num)
    /\ aorigin = "wire" /\ apc = "done" /\ Tlv_try_from(awire, overflow_checks).kind = "Ok"
          /\ (awire[1] # Numi64 \/ awire[2] # 8)
       => answer = NumErr("Generic")

C16_Witness ==
    /\ aorigin = "num" /\ apc = "done" /\ num = I64(-256)
    /\ awire = <<16, 8, 255, 255, 255, 255, 255, 255, 255, 0>>
    /\ answer = NumOk(num)

\* what the responder computes for one encoded Operation
Evaluated(r) == Operation_reduce(Operation_try_from(Tlv_try_from(r, overflow_checks)).val)

\* C13: for every Operation record sent on a connection the responder writes
\* exactly one Answer on it, in the order of the requests, so that a requester
\* waiting for one Answer per request is not left waiting: the responder stays
\* alive, never writes more Answers than requests, and has written one per
\* request whenever it is back in read with no byte left in flight.
C13_OneAnswerEach ==
    (\A i \in 1..Len(sent) : sent[i] \in OperationRequests) =>
        /\ spc # "dead"
        /\ Len(outbox) <= Len(sent)
        /\ \A i \in 1..Len(printed) : NumOk(printed[i]) = Evaluated(sent[i])
        /\ spc = "read" /\ pending = <<>> => Len(outbox) = Len(sent)

\* the saturating sum of the first i results
RECURSIVE SatSum(_, _)
SatSum(rs, i) == IF i = 0 THEN I64Zero ELSE saturating_add(SatSum(rs, i - 1), rs[i])

\* C19: the accumulator is per session: every Answer written on a connection
\* carries the saturating sum of the results evaluated on that connection
\* only, the first one its own result.
C19_PerSession ==
    /\ Len(outbox) = Len(printed)
    /\ \A i \in 1..Len(outbox) : outbox[i] = Answer_encode(SatSum(printed, i))

\* the bytes at the cursor of the for loop
AtCursor == Slice(sbuf, sindex, Len(sbuf))
\* they frame a record that is no Operation or has no value: a Num64 tag, a
\* length that does not fit the tag, a zero divisor, a negative factorial
FailingAtCursor ==
    /\ Len(AtCursor) >= 2 /\ AtCursor[1] \in TlvType
    /\ Len(AtCursor) >= 2 + AtCursor[2]
    /\ \/ AtCursor[1] = Numi64
       \/ AtCursor[1] \in {Sum, Sub, Mul, Div, Rem} /\ AtCursor[2] # 2
       \/ AtCursor[1] = Fact /\ AtCursor[2] # 1
       \/ AtCursor[1] \in {Div, Rem} /\ AtCursor[2] = 2 /\ AtCursor[4] = 0
       \/ AtCursor[1] = Fact /\ AtCursor[2] = 1 /\ AtCursor[3] >= 128

\* C20: a framed record that fails conversion or evaluation (zero divisor,
\* tag/length mismatch, Num64 tag, negative factorial) leaves the accumulator
\* unchanged, has no Answer written for it and does not end the session; the
\* loop goes on at the first byte after that record, so the later records of
\* the buffer are processed as if the failed one were absent.
C20_FailureIsolation ==
    [][ForStep /\ FailingAtCursor =>
          /\ acc' = acc /\ outbox' = outbox /\ printed' = printed
          /\ spc' = "for" /\ conn' = conn /\ closed' = closed /\ pending' = pending
          /\ sbuf' = sbuf
          /\ sindex' = sindex + 2 + sbuf[sindex + 2]]_vars

C20_Witness ==
    /\ spc = "for" /\ conn = 1 /\ sbuf = <<4, 2, 5, 0, 1, 2, 1, 2>> /\ sindex = 8
    /\ acc = I64(3) /\ outbox = <<Answer_encode(I64(3))>> /\ printed = <<I64(3)>>

\* the Operation records of the session that have a value
ValuedRequests ==
    {Operation_encode(o) : o \in {Operation("Sum", 1, 2), Operation("Fact", 21, 0)}}
\* the results of the records sent, in the order they were sent
SentResults == [i \in 1..Len(sent) |-> Evaluated(sent[i]).num]

\* C21: for a stream of valid Operation records sent on one connection the
\* Answers written do not depend on how the transport splits the stream into
\* reads: on the first connection they are, in order, the running sums of the
\* results of the records sent, one per record once every byte has been read,
\* a record split across two reads included.
C21_SegmentationIndependence ==
    conn = 1 /\ (\A i \in 1..Len(sent) : sent[i] \in ValuedRequests) =>
        /\ spc # "dead"
        /\ Len(outbox) <= Len(sent)
        /\ \A i \in 1..Len(outbox) : outbox[i] = Answer_encode(SatSum(SentResults, i))
        /\ spc = "read" /\ pending = <<>> => Len(outbox) = Len(sent)

====
